---- MODULE Spec2Model ----
(***************************************************************************)
(* Short-trade margin-call engine: the per-bar backtest state machine       *)
(* (BacktestEngine._run_backtest), its live mirror (LiveTradingEngine.run), *)
(* the grid-search selection and the MainEngine.run pipeline.               *)
(*                                                                          *)
(* Units.  Money is in cents and prices are in cents (the source uses       *)
(* floats); a quantity is in 1/100 of a contract ; a risk fraction is in    *)
(* percent; a PnL percent is in 1/100 of a percent.  Divisions truncate     *)
(* (\div) where the source divides floats.                                  *)
(***************************************************************************)
EXTENDS Integers, Sequences, FiniteSets, TLC

VARIABLES
    mode,           \* which component this behaviour exercises
    pc,             \* control position of that component
    params,         \* StrategyParams of the run
    window,         \* the previous `lookback` bars, oldest first: the rolling windows
    i,              \* number of bars of the series consumed so far (= index of the next bar)
    balance,        \* backtest: local `balance`; live: self.equity
    position,       \* backtest: position_open and the position locals; live: self.position
    equity_curve,   \* backtest: equity_curve
    wins, losses,   \* backtest: wins, losses
    trades,         \* backtest: trades (capture_trades = True); live: self.tradelog
    metrics,        \* backtest: the BacktestMetrics returned
    row_seen,       \* live: the latest row of the last fetched frame
    last_signal_ts, \* live: self._last_signal_ts
    total_pnl,      \* live: self.results["Total PnL"]
    opens, closes,  \* history: number of position opens / closes so far
    last,           \* history: what the last processed bar did
    nfetched,       \* MainEngine: len(df_1m), the bars fetched for the optimizer
    dfres,          \* MainEngine: the grid-search result rows, in enumeration order
    shuffled,       \* the same result rows in another order
    best,           \* MainEngine: the selected best row
    best_shuffled,  \* the best row selected from `shuffled`
    artifact,       \* MainEngine: the content of best_params.json
    queue,          \* MainEngine: the items of the optimization queue
    sims,           \* history: number of backtest simulations run
    live,           \* MainEngine: the LiveTradingEngine started by run()
    ret,            \* the value returned by the last call of an operation under study
    twin,           \* a second engine fed the same bars as the first
    engine          \* BacktestEngine: _last_trades, and the call in progress

tradingVars == <<params, window, i, balance, position, equity_curve,
                 wins, losses, trades, metrics, row_seen, last_signal_ts, total_pnl,
                 opens, closes, last>>

mainVars == <<nfetched, dfres, shuffled, best, best_shuffled, artifact, queue, sims, live>>

auxVars == <<ret, twin, engine>>

vars == <<mode, pc, tradingVars, mainVars, auxVars>>

Max(a, b) == IF a >= b THEN a ELSE b
Min(a, b) == IF a <= b THEN a ELSE b

RECURSIVE SeqMax(_)
SeqMax(s) == IF Len(s) = 1 THEN s[1] ELSE Max(s[1], SeqMax(Tail(s)))
RECURSIVE SeqMin(_)
SeqMin(s) == IF Len(s) = 1 THEN s[1] ELSE Min(s[1], SeqMin(Tail(s)))
RECURSIVE SeqSum(_)
SeqSum(s) == IF s = <<>> THEN 0 ELSE s[1] + SeqSum(Tail(s))

(***************************************************************************)
(* Bounds of the model.                                                     *)
(***************************************************************************)
MaxBars == 4        \* longest OHLC series replayed

(***************************************************************************)
(* TraderConfig (config.py).  The lookback search range is scaled down from *)
(* (10, ..., 70) so that the warmup fits the bounded series.                *)
(***************************************************************************)
starting_balance == 472 * 100
desired_leverage == 3
bybit_max_leverage == 50
bybit_leverage_tiers == << <<50000 * 100, 50>>, <<100000 * 100, 25>>, <<250000 * 100, 10>> >>
min_notional == 5 * 100
spread_bps == 2
slippage_bps == 3
highest_high_lookback_range == <<1, 2>>
exit_type_candidates == <<"highest_low", "lowest_high">>
take_profit_pct_default == 44       \* 0.0044, in 1/10000
risk_fraction_config == 95          \* risk_fraction = 0.95
max_risk_fraction == 90             \* max_risk_fraction = 0.9
min_history_padding == 2            \* 200 bars, scaled like the lookback range

\* order_reject_prob = 0.01 > 0: a simulated order can be rejected.
order_can_reject == TRUE

(***************************************************************************)
(* Inputs: price levels, bars, strategy parameters.                         *)
(***************************************************************************)
\* Four levels: a target below an entry, an entry close, an open above it that
\* stays under the entry's liquidation price, and a high that reaches it.
Prices == {6000, 7000, 9000, 10000}

\* The rows of a series.  The engines read Open only in `Close < Open`, so Open
\* takes the High (a down bar when Close < High) or the Close (not a down bar).
Bars == {b \in [Open : Prices, High : Prices, Low : Prices, Close : Prices] :
            /\ b.Low <= b.Close /\ b.Close <= b.High
            /\ b.Open \in {b.Close, b.High}}

\* "midpoint" is still supported; "other" stands for any unrecognised tag.
ExitTypes == {"highest_low", "lowest_high", "midpoint", "other"}
RiskFractions == {-50, 0, 1, 50, 100}

ParamSpace == [highest_high_lookback : {1, 2}, exit_type : ExitTypes,
               risk_fraction : RiskFractions, take_profit_pct : {take_profit_pct_default}]

NaN == -1

(***************************************************************************)
(* order_utils: fee model, leverage resolver, liquidation price, fill.      *)
(***************************************************************************)
\* fee_amount = notional * feeRate, feeRate = bybit_fee = 0.001
bybit_fee_fn(notional) == notional \div 1000

\* The narrowest tier whose threshold is >= the implied notional; beyond every
\* tier, the last (lowest-cap) tier.
RECURSIVE tier_cap(_, _)
tier_cap(tiers, notional) ==
    IF Len(tiers) = 1 \/ tiers[1][1] >= notional
    THEN tiers[1][2]
    ELSE tier_cap(Tail(tiers), notional)

\* The resolver without the tier schedule.
resolve_leverage_untiered(margin, desired, tiers, cap) == Min(desired, cap)

\* The least of the desired leverage, the matched tier's cap and the hard cap.
resolve_leverage_with(margin, desired, tiers, cap) ==
    Min(desired, Min(tier_cap(tiers, margin * desired), cap))

resolve_leverage(margin, desired) ==
    resolve_leverage_with(margin, desired, bybit_leverage_tiers, bybit_max_leverage)

\* The cushion taken off the entry price instead of added to it.
calc_liq_price_short_below(entry_price, leverage) ==
    entry_price - entry_price \div leverage + (entry_price * 4) \div 1000

\* liq_price = entry_price * (1 + 1/leverage - maintenance_margin_rate), rate 0.004
calc_liq_price_short(entry_price, leverage) ==
    entry_price + entry_price \div leverage - (entry_price * 4) \div 1000

\* (fill_price, status): rejected with no price, or filled at the reference
\* price less the spread and a slippage draw of 0..slippage_bps.
simulate_order_fill(ref_price) ==
    (IF order_can_reject THEN {[status |-> "rejected", price |-> NaN]} ELSE {})
    \cup {[status |-> "filled",
           price |-> ref_price - (ref_price * (spread_bps + s)) \div 10000] :
            s \in {0, slippage_bps}}

(***************************************************************************)
(* Rolling features of a row (shifted by one bar: the current bar is not in *)
(* the window).                                                             *)
(***************************************************************************)
Highs(w) == [k \in 1..Len(w) |-> w[k].High]
Lows(w) == [k \in 1..Len(w) |-> w[k].Low]

prev_highest_high(w) == SeqMax(Highs(w))
highest_low(w) == SeqMax(Lows(w))
lowest_high(w) == SeqMin(Highs(w))

entry_signal(row, w) == row.High >= prev_highest_high(w) /\ row.Close < row.Open

\* (mutant) no trailing structure value for any exit type
exit_target_for_row_undefined(w, exit_type) == NaN

\* _exit_target_for_row: the trailing structure value of the row for the exit
\* type, NaN for any other tag.
exit_target_for_row(w, exit_type) ==
    CASE exit_type = "highest_low" -> highest_low(w)
      [] exit_type = "lowest_high" -> lowest_high(w)
      [] exit_type = "midpoint" -> (highest_low(w) + lowest_high(w)) \div 2
      [] OTHER -> NaN

\* The window after one more bar: the last `lookback` bars.
Slide(w, row, lookback) ==
    LET w2 == Append(w, [High |-> row.High, Low |-> row.Low])
    IN  IF Len(w2) > lookback THEN Tail(w2) ELSE w2

(***************************************************************************)
(* The position.                                                            *)
(***************************************************************************)
FLAT == [open |-> FALSE, entry_price |-> 0, entry_time |-> 0, liq_price |-> 0,
         qty |-> 0, margin_used |-> 0, exit_target |-> 0, leverage |-> 0]

NoEvent == [kind |-> "none", entry |-> "none", exit |-> "none", row |-> <<>>,
            pos |-> FLAT, bal |-> 0, net_pnl |-> 0, t |-> -1, losses |-> 0]

NoMetrics == [returned |-> FALSE]

NoTs == -1

\* The amount left as it is, negative or not.
floor_at_zero_dropped(x) == x

\* max(0.0, balance) on a margin call and max(equity, 0) on the equity mark.
floor_at_zero(x) == Max(x, 0)

(***************************************************************************)
(* BacktestEngine._run_backtest: one iteration of the bar loop.             *)
(***************************************************************************)
\* (mutant) the two bounds of the clamp swapped
risk_fraction_clamp_swapped(rf) == Max(Min(rf, 0), 100)

\* risk_fraction = min(max(params.risk_fraction, 0.0), 1.0)
risk_fraction_clamped(rf) == Min(Max(rf, 0), 100)

\* (mutant) an abandoned entry that still debits a minimum order
Skipped_charged(why, bal, pos) ==
    [outcome |-> why, balance |-> bal - min_notional, position |-> pos]

\* An entry block that opens nothing: the balance and the position as they
\* were.
Skipped(why, bal, pos) == [outcome |-> why, balance |-> bal, position |-> pos]

\* (mutant) the entry block entered without testing position_open
entry_attempted_while_open(bal, pos, row, w) == bal > 0 /\ entry_signal(row, w)

\* The guard of the entry block: flat, funded, and the row signals.
entry_attempted(bal, pos, row, w) == ~pos.open /\ bal > 0 /\ entry_signal(row, w)

NoFill == [status |-> "none", price |-> NaN]

\* Entry evaluation.  `fill` is the outcome of simulate_order_fill at the close,
\* t the row's timestamp.  A skipped entry leaves every local unchanged.
BacktestEntry(bal, pos, row, w, p, fill, t) ==
    IF ~entry_attempted(bal, pos, row, w)
    THEN Skipped("none", bal, pos)
    ELSE IF fill.status # "filled" \/ fill.price = NaN
    THEN Skipped("rejected", bal, pos)
    ELSE LET risk_fraction == risk_fraction_clamped(p.risk_fraction)
             margin_used == (bal * risk_fraction) \div 100
             leverage_used == resolve_leverage(margin_used, desired_leverage)
             trade_value == margin_used * leverage_used
             entry_price == fill.price
             entry_fee == bybit_fee_fn(trade_value)
             target == exit_target_for_row(w, p.exit_type)
         IN  IF risk_fraction = 0 THEN Skipped("zero_risk", bal, pos)
             ELSE IF margin_used < min_notional THEN Skipped("margin_below_min", bal, pos)
             ELSE IF trade_value < min_notional THEN Skipped("notional_below_min", bal, pos)
             ELSE [outcome |-> "opened",
                   balance |-> bal - (entry_fee + margin_used),
                   position |->
                     [open |-> TRUE,
                      entry_price |-> entry_price,
                      entry_time |-> t,
                      liq_price |-> calc_liq_price_short(entry_price, leverage_used),
                      qty |-> (trade_value * 100) \div entry_price,
                      margin_used |-> margin_used,
                      exit_target |-> IF target = NaN
                                      THEN entry_price - (entry_price * p.take_profit_pct) \div 10000
                                      ELSE target,
                      leverage |-> leverage_used]]

\* The entry paths that append the balance and `continue`.
EntrySkips == {"rejected", "zero_risk", "margin_below_min", "notional_below_min"}

\* (mutant) the target tested first, the margin call in the elif
exit_reason_target_first(margin_call, tp_hit) ==
    IF tp_hit THEN "take_profit"
    ELSE IF margin_call THEN "margin_call"
    ELSE "none"

\* Which exit fires: the margin call is tested first, the target in the elif.
exit_reason(margin_call, tp_hit) ==
    IF margin_call THEN "margin_call"
    ELSE IF tp_hit THEN "take_profit"
    ELSE "none"

\* Net PnL of a margin call: the posted margin.
margin_call_pnl(pos) == - pos.margin_used

\* (mutant) the gross PnL, no exit fee charged
take_profit_pnl_gross(pos, exit_price) ==
    ((pos.entry_price - exit_price) * pos.qty) \div 100

\* Net PnL of a take-profit at exit_price.
take_profit_pnl(pos, exit_price) ==
    LET exit_fee == bybit_fee_fn((pos.qty * exit_price) \div 100)
        gross == ((pos.entry_price - exit_price) * pos.qty) \div 100
    IN  gross - exit_fee

\* Exit evaluation on the row, for the position as it is after the entry step.
BacktestExit(bal, pos, row, p, t) ==
    LET margin_call == row.High >= pos.liq_price
        tp_hit == row.Low <= pos.exit_target
        reason == IF pos.open THEN exit_reason(margin_call, tp_hit) ELSE "none"
    IN  CASE reason = "margin_call" ->
               LET net_pnl == margin_call_pnl(pos)
               IN  [reason |-> reason, balance |-> floor_at_zero(bal), position |-> FLAT,
                    net_pnl |-> net_pnl, win |-> FALSE,
                    trade |-> [entry_time |-> pos.entry_time, exit_time |-> t,
                               entry_price |-> pos.entry_price, exit_price |-> pos.liq_price,
                               pnl_value |-> net_pnl, qty |-> pos.qty,
                               exit_type |-> "margin_call"]]
          [] reason = "take_profit" ->
               LET exit_price == pos.exit_target
                   net_pnl == take_profit_pnl(pos, exit_price)
               IN  [reason |-> reason, balance |-> bal + pos.margin_used + net_pnl,
                    position |-> FLAT, net_pnl |-> net_pnl, win |-> net_pnl > 0,
                    trade |-> [entry_time |-> pos.entry_time, exit_time |-> t,
                               entry_price |-> pos.entry_price, exit_price |-> exit_price,
                               pnl_value |-> net_pnl, qty |-> pos.qty,
                               exit_type |-> p.exit_type]]
          [] OTHER ->
               [reason |-> "none", balance |-> bal, position |-> pos,
                net_pnl |-> 0, win |-> FALSE, trade |-> <<>>]

\* Unrealized PnL of the open short at the bar's close.
unrealized_pnl(pos, close) == ((pos.entry_price - close) * pos.qty) \div 100

\* The equity appended for the bar, floored at zero.
marked_equity(bal, pos, close) ==
    floor_at_zero(IF pos.open THEN bal + pos.margin_used + unrealized_pnl(pos, close)
                  ELSE bal)

warmup_unshifted(p) == p.highest_high_lookback

warmup(p) == p.highest_high_lookback + 1

(***************************************************************************)
(* The backtest run as a state machine: one step per bar of the series.     *)
(* The series is drawn bar by bar; it ends after any number of bars up to   *)
(* MaxBars.                                                                 *)
(***************************************************************************)
NoRow == [idx |-> 0]
NoArtifact == [written |-> FALSE]
NoLive == [started |-> FALSE]

NoRet == [called |-> FALSE]
NoTwin == [running |-> FALSE]

\* The optimizer pipeline before MainEngine.run is called.
OptimizerIdle ==
    /\ ret = NoRet
    /\ nfetched = 0
    /\ dfres = <<>>
    /\ shuffled = <<>>
    /\ best = NoRow
    /\ best_shuffled = NoRow
    /\ artifact = NoArtifact
    /\ queue = <<>>
    /\ sims = 0
    /\ live = NoLive

\* BacktestEngine(config) after __init__, and the call made on it: the first,
\* with trade capture.
NewEngine == [last_trades |-> <<>>, capture_trades |-> TRUE, runs |-> 1]

MainIdle == OptimizerIdle /\ twin = NoTwin /\ engine = NewEngine

\* _run_backtest at its first bar: the locals of lines 86-100.
BacktestStart ==
    /\ OptimizerIdle
    /\ mode = "backtest"
    /\ pc = "running"
    /\ params \in ParamSpace
    /\ window = <<>>
    /\ i = 0
    /\ balance = starting_balance
    /\ position = FLAT
    /\ equity_curve = <<>>
    /\ wins = 0
    /\ losses = 0
    /\ trades = <<>>
    /\ metrics = NoMetrics
    /\ row_seen = <<>>
    /\ last_signal_ts = NoTs
    /\ total_pnl = 0
    /\ opens = 0
    /\ closes = 0
    /\ last = NoEvent

InitBacktest == BacktestStart /\ twin = NoTwin /\ engine = NewEngine

\* A bar before index `warmup`: it only enters the rolling windows.
WarmupBar ==
    /\ mode = "backtest" /\ pc = "running"
    /\ i < MaxBars /\ i < warmup(params)
    /\ \E row \in Bars :
         window' = Slide(window, row, params.highest_high_lookback)
    /\ i' = i + 1
    /\ UNCHANGED <<mode, pc, params, balance, position, equity_curve, wins, losses,
                   trades, metrics, row_seen, last_signal_ts, total_pnl, opens, closes, last>>
    /\ UNCHANGED <<mainVars, auxVars>>

\* What the loop body leaves in the locals of a run `st` once the entry block
\* returned `e` and the exit block `x`: an entry that was skipped appends the
\* balance and `continue`s, any other bar is closed by the equity mark.
after_bar(st, e, x, close) ==
    LET skip == e.outcome \in EntrySkips
        closed == ~skip /\ x.reason # "none"
    IN  [balance |-> IF skip THEN e.balance ELSE x.balance,
         position |-> IF skip THEN e.position ELSE x.position,
         equity_curve |-> Append(st.equity_curve,
                                 IF skip THEN e.balance
                                 ELSE marked_equity(x.balance, x.position, close)),
         wins |-> IF ~skip /\ x.reason = "take_profit" /\ x.win
                  THEN st.wins + 1 ELSE st.wins,
         losses |-> IF ~skip /\ (x.reason = "margin_call"
                                  \/ (x.reason = "take_profit" /\ ~x.win))
                    THEN st.losses + 1 ELSE st.losses,
         trades |-> IF closed THEN Append(st.trades, x.trade) ELSE st.trades,
         exit |-> IF skip THEN "none" ELSE x.reason,
         net_pnl |-> IF skip THEN 0 ELSE x.net_pnl]

\* The locals of the run in the variables.
locals == [balance |-> balance, position |-> position, equity_curve |-> equity_curve,
           wins |-> wins, losses |-> losses, trades |-> trades]

\* The loop body for the bar at index i >= warmup: one iteration on the bar
\* `row`, the entry order (if one is placed) getting the fill `fill`.
BacktestStep(row, fill) ==
    /\ \E e \in {BacktestEntry(balance, position, row, window, params, fill, i)} :
       \E x \in {BacktestExit(e.balance, e.position, row, params, i)} :
       \E r \in {after_bar(locals, e, x, row.Close)} :
             /\ window' = Slide(window, row, params.highest_high_lookback)
             /\ balance' = r.balance
             /\ position' = r.position
             /\ equity_curve' = r.equity_curve
             /\ wins' = r.wins
             /\ losses' = r.losses
             /\ trades' = r.trades
             /\ opens' = IF e.outcome = "opened" THEN opens + 1 ELSE opens
             /\ closes' = IF r.exit # "none" THEN closes + 1 ELSE closes
             /\ last' = [kind |-> "bar", entry |-> e.outcome, exit |-> r.exit,
                         row |-> row, pos |-> e.position, bal |-> e.balance,
                         net_pnl |-> r.net_pnl, t |-> i, losses |-> losses]
    /\ i' = i + 1
    /\ UNCHANGED <<mode, pc, params, metrics, row_seen, last_signal_ts, total_pnl>>
    /\ UNCHANGED <<mainVars, ret, engine>>

\* The loop is on a bar at index i >= warmup.
AtBar == mode = "backtest" /\ pc = "running" /\ i < MaxBars /\ i >= warmup(params)

\* A bar of a run on its own: the fill is drawn when an entry is attempted.
BacktestBar ==
    /\ AtBar
    /\ \E row \in Bars :
       \E fill \in IF entry_attempted(balance, position, row, window)
                  THEN simulate_order_fill(row.Close) ELSE {NoFill} :
          BacktestStep(row, fill)
    /\ UNCHANGED twin

RECURSIVE GCD(_, _)
GCD(a, b) == IF b = 0 THEN a ELSE GCD(b, a % b)

Abs(x) == IF x < 0 THEN -x ELSE x

\* pd.Series(equity_curve).pct_change(): the bar-over-bar returns as fractions
\* <<numerator, denominator>> in lowest terms; 0/0 is NaN, x/0 is infinite.
pct_change(curve) ==
    [k \in 1..(Len(curve) - 1) |->
        LET num == curve[k + 1] - curve[k]
            den == curve[k]
            g == GCD(Abs(num), den)
        IN  IF g = 0 THEN <<0, 0>> ELSE <<num \div g, den \div g>>]

IsNaNReturn(r) == r = <<0, 0>>

\* .dropna(): the NaN returns removed (the first, undefined one is not kept
\* in pct_change above).
dropna(rs) == SelectSeq(rs, LAMBDA r : ~IsNaNReturn(r))

\* returns.std(), the sample standard deviation (ddof = 1): NaN for fewer than
\* two returns or an infinite one, zero when all returns are equal.
std_kind(rs) ==
    IF Len(rs) < 2 \/ \E k \in DOMAIN rs : rs[k][2] = 0 THEN "nan"
    ELSE IF \A k \in DOMAIN rs : rs[k] = rs[1] THEN "zero"
    ELSE "positive"

\* sharpe = (mean / std) * sqrt(periods) if returns.std() != 0 else 0: a NaN
\* deviation compares unequal to zero, and the ratio is NaN.
sharpe_of(curve) ==
    LET sd == std_kind(dropna(pct_change(curve)))
    IN  IF sd = "zero" THEN "zero"
        ELSE IF sd = "nan" THEN "nan"
        ELSE "finite"

\* win_sizes and loss_sizes of the closed trades (as PnL values): a trade
\* with net PnL > 0 is a win, any other a loss.
win_sizes(tr) == SelectSeq([k \in DOMAIN tr |-> tr[k].pnl_value], LAMBDA v : v > 0)
loss_sizes(tr) == SelectSeq([k \in DOMAIN tr |-> tr[k].pnl_value], LAMBDA v : v <= 0)

\* rr_ratio = (avg_win / abs(avg_loss)) if avg_loss != 0 else None, in 1/100;
\* the averages are 0 for an empty list.
rr_ratio_of(tr) ==
    LET ws == win_sizes(tr)
        ls == loss_sizes(tr)
    IN  IF ls = <<>> \/ SeqSum(ls) = 0
        THEN [null |-> TRUE]
        ELSE [null |-> FALSE,
              value |-> IF ws = <<>> THEN 0
                        ELSE (SeqSum(ws) * Len(ls) * 100) \div (Len(ws) * Abs(SeqSum(ls)))]

\* End of the series: the metrics of a run from its curve, its counters and
\* the sizes of its closed trades.
metrics_of(curve, w, l, tr) ==
    IF curve = <<>>
    THEN [returned |-> TRUE, pnl_pct |-> 0, pnl_value |-> 0,
          final_balance |-> starting_balance, wins |-> 0, losses |-> 0,
          rr_ratio |-> [null |-> TRUE], sharpe |-> "zero"]
    ELSE LET final_balance == curve[Len(curve)]
             pnl_value == final_balance - starting_balance
         IN  [returned |-> TRUE, pnl_pct |-> (pnl_value * 100) \div (starting_balance \div 100),
              pnl_value |-> pnl_value, final_balance |-> final_balance,
              wins |-> w, losses |-> l,
              rr_ratio |-> rr_ratio_of(tr), sharpe |-> sharpe_of(curve)]

BacktestMetrics == metrics_of(equity_curve, wins, losses, trades)

\* self._last_trades = trades if capture_trades else [] (line 232), which the
\* early return for an empty equity curve (lines 219-220) does not reach.
last_trades_set(eng, curve, tr) ==
    IF curve = <<>> THEN eng
    ELSE [eng EXCEPT !.last_trades = IF eng.capture_trades THEN tr ELSE <<>>]

\* (mutant) the end of the series closes what is open at the last close
BacktestReturnClosing ==
    /\ mode = "backtest" /\ pc = "running"
    /\ pc' = "done"
    /\ position' = FLAT
    /\ losses' = IF position.open THEN losses + 1 ELSE losses
    /\ metrics' = metrics_of(equity_curve, wins, losses', trades)
    /\ engine' = last_trades_set(engine, equity_curve, trades)
    /\ UNCHANGED <<mode, params, window, i, balance, equity_curve, wins,
                   trades, row_seen, last_signal_ts, total_pnl, opens, closes, last>>
    /\ UNCHANGED <<mainVars, ret, twin>>

\* The series is exhausted: the loop ends and the metrics are returned.
BacktestReturn ==
    /\ mode = "backtest" /\ pc = "running"
    /\ pc' = "done"
    /\ metrics' = BacktestMetrics
    /\ engine' = last_trades_set(engine, equity_curve, trades)
    /\ UNCHANGED <<mode, params, window, i, balance, position, equity_curve, wins,
                   losses, trades, row_seen, last_signal_ts, total_pnl, opens, closes, last>>
    /\ UNCHANGED <<mainVars, ret, twin>>

BacktestNext == WarmupBar \/ BacktestBar \/ BacktestReturn

(***************************************************************************)
(* SellOrderEngine, as LiveTradingEngine.run uses it: should_enter(row) and *)
(* open_position(row, available_usdt) -> (position, status, entry_fee, _,   *)
(* margin_used).  It sizes the entry as the backtest does, with the         *)
(* configured risk per entry, min(risk_fraction, max_risk_fraction).        *)
(***************************************************************************)
should_enter(row, w) == entry_signal(row, w)

live_risk_fraction == Min(risk_fraction_config, max_risk_fraction)

open_position(row, available_usdt, fill, t) ==
    LET margin_used == (available_usdt * live_risk_fraction) \div 100
        leverage == resolve_leverage(margin_used, desired_leverage)
        trade_value == margin_used * leverage
        none == [status |-> "none", position |-> FLAT, entry_fee |-> 0, margin_used |-> 0]
    IN  IF available_usdt <= 0 THEN [none EXCEPT !.status = "insufficient_funds"]
        ELSE IF fill.status # "filled" THEN [none EXCEPT !.status = "rejected"]
        ELSE IF margin_used < min_notional \/ trade_value < min_notional
        THEN [none EXCEPT !.status = "min_notional_not_met"]
        ELSE [status |-> "filled",
              position |-> [open |-> TRUE, entry_price |-> fill.price, entry_time |-> t,
                            liq_price |-> 0,
                            qty |-> (trade_value * 100) \div fill.price,
                            margin_used |-> margin_used, exit_target |-> NaN,
                            leverage |-> leverage],
              entry_fee |-> bybit_fee_fn(trade_value),
              margin_used |-> margin_used]

(***************************************************************************)
(* LiveTradingEngine: one iteration of the polling loop on the latest row.  *)
(***************************************************************************)
\* The guard without the comparison with _last_signal_ts.
live_entry_attempted_ungated(pos, row, w, t, last_ts) ==
    ~pos.open /\ should_enter(row, w)

\* The guard of the live entry block.
live_entry_attempted(pos, row, w, t, last_ts) ==
    ~pos.open /\ should_enter(row, w) /\ t # last_ts

\* The entry block of run(): the result of open_position, completed with the
\* exit fields and the liquidation price, and the debit of the equity.
LiveEntry(equity, pos, row, w, p, fill, t, last_ts) ==
    IF ~live_entry_attempted(pos, row, w, t, last_ts)
    THEN [outcome |-> "none", balance |-> equity, position |-> pos, last_signal_ts |-> last_ts]
    ELSE LET r == open_position(row, equity, fill, t)
             target == exit_target_for_row(w, p.exit_type)
         IN  IF r.status \in {"rejected", "min_notional_not_met"} \/ ~r.position.open
             THEN [outcome |-> IF r.status = "filled" THEN "rejected" ELSE r.status,
                   balance |-> equity, position |-> pos, last_signal_ts |-> last_ts]
             ELSE [outcome |-> "opened",
                   balance |-> equity - (r.entry_fee + r.margin_used),
                   position |->
                     [r.position EXCEPT
                        !.exit_target =
                            IF target = NaN
                            THEN r.position.entry_price
                                 - (r.position.entry_price * take_profit_pct_default) \div 10000
                            ELSE target,
                        !.liq_price = calc_liq_price_short(r.position.entry_price,
                                                           r.position.leverage)],
                   last_signal_ts |-> t]

\* _handle_exit: which exit fires.
live_exit_reason(margin_call, tp_hit) ==
    IF ~(margin_call \/ tp_hit) THEN "none"
    ELSE IF margin_call THEN "margin_call"
    ELSE "take_profit"

LiveExit(equity, pos, row, t) ==
    LET margin_call == row.High >= pos.liq_price
        tp_hit == row.Low <= pos.exit_target
        reason == IF pos.open THEN live_exit_reason(margin_call, tp_hit) ELSE "none"
    IN  CASE reason = "margin_call" ->
               LET net_pnl == margin_call_pnl(pos)
               IN  [reason |-> reason, balance |-> equity, position |-> FLAT,
                    net_pnl |-> net_pnl,
                    trade |-> [entry_time |-> pos.entry_time, exit_time |-> t,
                               entry_price |-> pos.entry_price, exit_price |-> pos.liq_price,
                               pnl_value |-> net_pnl, qty |-> pos.qty,
                               exit_type |-> "margin_call"]]
          [] reason = "take_profit" ->
               LET exit_price == IF tp_hit /\ pos.exit_target # 0
                                 THEN pos.exit_target ELSE row.Close
                   net_pnl == take_profit_pnl(pos, exit_price)
               IN  [reason |-> reason, balance |-> equity + pos.margin_used + net_pnl,
                    position |-> FLAT, net_pnl |-> net_pnl,
                    trade |-> [entry_time |-> pos.entry_time, exit_time |-> t,
                               entry_price |-> pos.entry_price, exit_price |-> exit_price,
                               pnl_value |-> net_pnl, qty |-> pos.qty,
                               exit_type |-> "TARGET"]]
          [] OTHER ->
               [reason |-> "none", balance |-> equity, position |-> pos,
                net_pnl |-> 0, trade |-> <<>>]

\* _log_live_summary: the losses are the trades with pnl <= 0.
LiveLosses(log) == Cardinality({k \in DOMAIN log : log[k].pnl_value <= 0})

\* The live engine reads only the lookback and the exit type of its params;
\* MainEngine.run takes both from the best grid row.
LiveParamSpace ==
    {p \in ParamSpace : /\ p.risk_fraction = 0
                        /\ \E k \in DOMAIN exit_type_candidates :
                              p.exit_type = exit_type_candidates[k]}

\* The (High, Low) of a bar of the history the engine starts on: quiet bars,
\* whose low is the high or one level under it.
HighLows == {hl \in [High : Prices, Low : Prices] :
                hl.Low <= hl.High /\ \A q \in Prices : ~(hl.Low < q /\ q < hl.High)}

\* The engine starts on a market that already has a history of `lookback`
\* bars; the frames it fetches end with the bars that follow.
InitLive ==
    /\ MainIdle
    /\ mode = "live"
    /\ pc = "running"
    /\ params \in LiveParamSpace
    /\ window \in [1..params.highest_high_lookback -> HighLows]
    /\ i = params.highest_high_lookback
    /\ balance = starting_balance
    /\ position = FLAT
    /\ equity_curve = <<>>
    /\ wins = 0
    /\ losses = 0
    /\ trades = <<>>
    /\ metrics = NoMetrics
    /\ row_seen = <<>>
    /\ last_signal_ts = NoTs
    /\ total_pnl \in {0, 100}
    /\ opens = 0
    /\ closes = 0
    /\ last = NoEvent

\* The body of the try block once the frame (n bars, latest row, its windows)
\* has been fetched.
LiveBody(n, row, w) ==
    LET t == n - 1
        lookback == params.highest_high_lookback
    IN  IF n < lookback + min_history_padding
        THEN /\ last' = [NoEvent EXCEPT !.kind = "waiting", !.t = t, !.exit = "not_evaluated"]
             /\ UNCHANGED <<balance, position, trades, last_signal_ts, opens, closes>>
        ELSE IF total_pnl <= 0
        THEN /\ last' = [NoEvent EXCEPT !.kind = "no_edge", !.t = t, !.row = row,
                                         !.exit = "not_evaluated"]
             /\ UNCHANGED <<balance, position, trades, last_signal_ts, opens, closes>>
        ELSE \E fill \in IF live_entry_attempted(position, row, w, t, last_signal_ts)
                         THEN simulate_order_fill(row.Close) ELSE {NoFill} :
             \E e \in {LiveEntry(balance, position, row, w, params, fill, t, last_signal_ts)} :
             \E x \in {LiveExit(e.balance, e.position, row, t)} :
                   /\ balance' = x.balance
                   /\ position' = x.position
                   /\ trades' = IF x.reason # "none" THEN Append(trades, x.trade) ELSE trades
                   /\ last_signal_ts' = e.last_signal_ts
                   /\ opens' = IF e.outcome = "opened" THEN opens + 1 ELSE opens
                   /\ closes' = IF x.reason # "none" THEN closes + 1 ELSE closes
                   /\ last' = [kind |-> "bar", entry |-> e.outcome, exit |-> x.reason,
                               row |-> row, pos |-> e.position, bal |-> e.balance,
                               net_pnl |-> x.net_pnl, t |-> t,
                               losses |-> LiveLosses(trades)]

\* An iteration whose fetch returns a frame with one more bar.
LiveNewBar ==
    /\ mode = "live" /\ pc = "running"
    /\ i < MaxBars
    /\ \E row \in Bars :
       \E w \in {IF row_seen = <<>> THEN window
                 ELSE Slide(window, row_seen, params.highest_high_lookback)} :
             /\ row_seen' = row
             /\ window' = w
             /\ i' = i + 1
             /\ LiveBody(i + 1, row, w)
    /\ UNCHANGED <<mode, pc, params, equity_curve, wins, losses, metrics, total_pnl>>
    /\ UNCHANGED <<mainVars, auxVars>>

\* An iteration whose fetch returns the same latest bar again.
LiveSameBar ==
    /\ mode = "live" /\ pc = "running"
    /\ row_seen # <<>>
    /\ LiveBody(i, row_seen, window)
    /\ UNCHANGED <<mode, pc, params, window, i, equity_curve, wins, losses, metrics,
                   row_seen, total_pnl>>
    /\ UNCHANGED <<mainVars, auxVars>>

\* The handler re-raising instead of backing off.
after_exception_reraised == "crashed"

\* except Exception: the handler prints, sleeps 2 s and falls through to the
\* next iteration of `while True`.
after_exception == "running"

\* An iteration that raises before it changes anything (the fetch fails, the
\* payload lacks a column): the exception is caught and the loop goes on.
LiveException ==
    /\ mode = "live" /\ pc = "running"
    /\ pc' = after_exception
    /\ last' = [NoEvent EXCEPT !.kind = "exception"]
    /\ UNCHANGED <<mode, params, window, i, balance, position, equity_curve, wins,
                   losses, trades, metrics, row_seen, last_signal_ts, total_pnl,
                   opens, closes>>
    /\ UNCHANGED <<mainVars, auxVars>>

\* A shutdown that closes the open position at its margin before it breaks.
LiveStopClosing ==
    /\ mode = "live" /\ pc = "running"
    /\ pc' = "stopped"
    /\ position' = FLAT
    /\ balance' = balance + position.margin_used
    /\ closes' = IF position.open THEN closes + 1 ELSE closes
    /\ UNCHANGED <<mode, params, window, i, equity_curve, wins, losses, trades, metrics,
                   row_seen, last_signal_ts, total_pnl, opens, last>>
    /\ UNCHANGED <<mainVars, auxVars>>

\* KeyboardInterrupt: the loop breaks.
LiveStop ==
    /\ mode = "live" /\ pc = "running"
    /\ pc' = "stopped"
    /\ UNCHANGED <<mode, params, window, i, balance, position, equity_curve, wins,
                   losses, trades, metrics, row_seen, last_signal_ts, total_pnl,
                   opens, closes, last>>
    /\ UNCHANGED <<mainVars, auxVars>>

LiveNext == LiveNewBar \/ LiveSameBar \/ LiveException \/ LiveStop

Init == InitBacktest \/ InitLive
Next == BacktestNext \/ LiveNext
Spec == Init /\ [][Next]_vars

(***************************************************************************)
(* LiveTradingEngine.run statement by statement: KeyboardInterrupt is       *)
(* raised by the signal handler between any two statements of the try       *)
(* body, and the except clause breaks out of the loop wherever it was.      *)
(***************************************************************************)
\* The places of the try body: the top of the loop, before the debit of the
\* equity (line 160), before self.position = position (161), before
\* self._last_signal_ts = row.name (163), before _handle_exit (167), before
\* self.tradelog.append (102), before self.position = None (118), and the
\* sleep that ends the iteration (187).
IterationPlaces ==
    {"running", "entry_debit", "entry_record", "entry_mark", "exit", "exit_log",
     "exit_close", "sleep"}

InitInterrupt == InitLive /\ total_pnl = 100 /\ params.highest_high_lookback = 1

\* Lines 129-159: the frame is fetched, the length and edge checks made, and
\* the entry evaluated up to the position returned by open_position and
\* completed with its exit target and liquidation price.
IterFetch ==
    /\ mode = "live" /\ pc = "running"
    /\ i < MaxBars
    /\ \E row \in Bars :
       \E w \in {IF row_seen = <<>> THEN window
                 ELSE Slide(window, row_seen, params.highest_high_lookback)} :
          /\ row_seen' = row
          /\ window' = w
          /\ IF i + 1 < params.highest_high_lookback + min_history_padding
                \/ total_pnl <= 0
             THEN /\ pc' = "sleep"
                  /\ last' = [NoEvent EXCEPT !.kind = "waiting", !.t = i,
                                             !.exit = "not_evaluated"]
             ELSE \E fill \in IF live_entry_attempted(position, row, w, i, last_signal_ts)
                              THEN simulate_order_fill(row.Close) ELSE {NoFill} :
                  \E e \in {LiveEntry(balance, position, row, w, params, fill, i,
                                      last_signal_ts)} :
                     /\ pc' = IF e.outcome = "opened" THEN "entry_debit" ELSE "exit"
                     /\ last' = [kind |-> "bar", entry |-> e.outcome,
                                 exit |-> "not_evaluated", row |-> row,
                                 pos |-> e.position, bal |-> e.balance, net_pnl |-> 0,
                                 t |-> i, losses |-> LiveLosses(trades)]
    /\ i' = i + 1
    /\ UNCHANGED <<mode, params, balance, position, equity_curve, wins, losses, trades,
                   metrics, last_signal_ts, total_pnl, opens, closes>>
    /\ UNCHANGED <<mainVars, auxVars>>

\* Line 160: self.equity -= (entry_fee + margin_used).
EntryDebit ==
    /\ mode = "live" /\ pc = "entry_debit"
    /\ balance' = last.bal
    /\ opens' = opens + 1
    /\ pc' = "entry_record"
    /\ UNCHANGED <<mode, params, window, i, position, equity_curve, wins, losses, trades,
                   metrics, row_seen, last_signal_ts, total_pnl, closes, last>>
    /\ UNCHANGED <<mainVars, auxVars>>

\* Line 161: self.position = position.
EntryRecord ==
    /\ mode = "live" /\ pc = "entry_record"
    /\ position' = last.pos
    /\ pc' = "entry_mark"
    /\ UNCHANGED <<mode, params, window, i, balance, equity_curve, wins, losses, trades,
                   metrics, row_seen, last_signal_ts, total_pnl, opens, closes, last>>
    /\ UNCHANGED <<mainVars, auxVars>>

\* Line 163: self._last_signal_ts = row.name.
EntryMark ==
    /\ mode = "live" /\ pc = "entry_mark"
    /\ last_signal_ts' = last.t
    /\ pc' = "exit"
    /\ UNCHANGED <<mode, params, window, i, balance, position, equity_curve, wins, losses,
                   trades, metrics, row_seen, total_pnl, opens, closes, last>>
    /\ UNCHANGED <<mainVars, auxVars>>

\* _handle_exit, lines 81-100: nothing to do, or the exit is settled (the
\* equity credited on a take-profit).
ExitSettle ==
    /\ mode = "live" /\ pc = "exit"
    /\ \E x \in {LiveExit(balance, position, last.row, last.t)} :
          IF x.reason = "none"
          THEN /\ pc' = "sleep"
               /\ last' = [last EXCEPT !.exit = "none"]
               /\ UNCHANGED <<balance, closes>>
          ELSE /\ pc' = "exit_log"
               /\ balance' = x.balance
               /\ closes' = closes + 1
               /\ last' = [last EXCEPT !.exit = x.reason, !.net_pnl = x.net_pnl]
    /\ UNCHANGED <<mode, params, window, i, position, equity_curve, wins, losses, trades,
                   metrics, row_seen, last_signal_ts, total_pnl, opens>>
    /\ UNCHANGED <<mainVars, auxVars>>

\* Lines 102-116: self.tradelog.append({...}), built from the position still
\* recorded.
ExitLog ==
    /\ mode = "live" /\ pc = "exit_log"
    /\ trades' = Append(trades, LiveExit(balance, position, last.row, last.t).trade)
    /\ pc' = "exit_close"
    /\ UNCHANGED <<mode, params, window, i, balance, position, equity_curve, wins, losses,
                   metrics, row_seen, last_signal_ts, total_pnl, opens, closes, last>>
    /\ UNCHANGED <<mainVars, auxVars>>

\* Line 118: self.position = None.
ExitClose ==
    /\ mode = "live" /\ pc = "exit_close"
    /\ position' = FLAT
    /\ pc' = "sleep"
    /\ UNCHANGED <<mode, params, window, i, balance, equity_curve, wins, losses, trades,
                   metrics, row_seen, last_signal_ts, total_pnl, opens, closes, last>>
    /\ UNCHANGED <<mainVars, auxVars>>

\* Lines 133, 141, 187: time.sleep returns and the loop goes round.
IterSleep ==
    /\ mode = "live" /\ pc = "sleep"
    /\ pc' = "running"
    /\ UNCHANGED <<mode, params, window, i, balance, position, equity_curve, wins, losses,
                   trades, metrics, row_seen, last_signal_ts, total_pnl, opens, closes, last>>
    /\ UNCHANGED <<mainVars, auxVars>>

\* Lines 189-191: KeyboardInterrupt, raised wherever the try body is; the
\* handler prints and breaks.
Interrupt ==
    /\ mode = "live" /\ pc \in IterationPlaces
    /\ pc' = "stopped"
    /\ UNCHANGED <<mode, params, window, i, balance, position, equity_curve, wins, losses,
                   trades, metrics, row_seen, last_signal_ts, total_pnl, opens, closes, last>>
    /\ UNCHANGED <<mainVars, auxVars>>

InterruptNext ==
    \/ IterFetch \/ EntryDebit \/ EntryRecord \/ EntryMark
    \/ ExitSettle \/ ExitLog \/ ExitClose \/ IterSleep \/ Interrupt

SpecInterrupt == InitInterrupt /\ [][InterruptNext]_vars

(***************************************************************************)
(* Several runs on one BacktestEngine instance: grid-search runs (no trade  *)
(* capture) and run_backtest_with_trades, on series of any length.          *)
(***************************************************************************)
MaxRuns == 2        \* calls of _run_backtest made on the instance

RunParams == [highest_high_lookback |-> 1, exit_type |-> "highest_low",
              risk_fraction |-> 50, take_profit_pct |-> take_profit_pct_default]

InitRuns ==
    /\ BacktestStart
    /\ params = RunParams
    /\ twin = NoTwin
    /\ engine \in [last_trades : {<<>>}, capture_trades : BOOLEAN, runs : {1}]

\* The next call of _run_backtest on the same instance, from
\* grid_search_with_progress (capture_trades = False) or from
\* run_backtest_with_trades (True): the locals start afresh, the instance
\* keeps _last_trades.
NextRun ==
    /\ mode = "backtest" /\ pc = "done"
    /\ engine.runs < MaxRuns
    /\ \E capture \in BOOLEAN :
          engine' = [engine EXCEPT !.runs = @ + 1, !.capture_trades = capture]
    /\ pc' = "running"
    /\ window' = <<>>
    /\ i' = 0
    /\ balance' = starting_balance
    /\ position' = FLAT
    /\ equity_curve' = <<>>
    /\ wins' = 0
    /\ losses' = 0
    /\ trades' = <<>>
    /\ metrics' = NoMetrics
    /\ opens' = 0
    /\ closes' = 0
    /\ last' = NoEvent
    /\ UNCHANGED <<mode, params, row_seen, last_signal_ts, total_pnl>>
    /\ UNCHANGED <<mainVars, ret, twin>>

RunsNext == WarmupBar \/ BacktestBar \/ BacktestReturn \/ NextRun

SpecRuns == InitRuns /\ [][RunsNext]_vars

(***************************************************************************)
(* The metrics as a function of what the loop leaves: _run_backtest at the  *)
(* end of its loop, for bounded equity curves and closed trades.            *)
(***************************************************************************)
MaxCurve == 3       \* longest equity curve handed to the metrics

EquityValues == {0, 40000, starting_balance}

\* An equity point of zero is a balance of zero: it stays.
Curves ==
    {c \in UNION {[1..n -> EquityValues] : n \in 0..MaxCurve} :
        \A k \in 1..(Len(c) - 1) : c[k] = 0 => c[k + 1] = 0}

\* Net PnL of closed trades: a margin call, a break-even exit, a win.
ClosedPnls == UNION {[1..n -> {-23600, 0, 566}] : n \in 0..2}

InitMetrics ==
    /\ MainIdle
    /\ mode = "backtest"
    /\ pc = "running"
    /\ params = [highest_high_lookback |-> 1, exit_type |-> "highest_low",
                 risk_fraction |-> 50, take_profit_pct |-> take_profit_pct_default]
    /\ equity_curve \in Curves
    /\ \E pnls \in ClosedPnls :
          /\ Len(pnls) <= Len(equity_curve)
          /\ trades = [k \in DOMAIN pnls |-> [pnl_value |-> pnls[k]]]
          /\ wins = Len(SelectSeq(pnls, LAMBDA v : v > 0))
          /\ losses = Len(SelectSeq(pnls, LAMBDA v : v <= 0))
          /\ closes = Len(pnls)
          /\ opens = Len(pnls)
    /\ i = IF equity_curve = <<>> THEN 0 ELSE warmup(params) + Len(equity_curve)
    /\ window = <<>>
    /\ balance = IF equity_curve = <<>> THEN starting_balance
                 ELSE equity_curve[Len(equity_curve)]
    /\ position = FLAT
    /\ metrics = NoMetrics
    /\ row_seen = <<>>
    /\ last_signal_ts = NoTs
    /\ total_pnl = 0
    /\ last = NoEvent

SpecMetrics == InitMetrics /\ [][BacktestReturn]_vars

(***************************************************************************)
(* A backtest and a second engine fed the same bars, one bar per step: the  *)
(* live engine built on the same params and config, or a second run of      *)
(* _run_backtest.                                                            *)
(***************************************************************************)
\* LiveTradingEngine(config, params, results) after __init__, the results
\* showing an edge.
LiveTwin ==
    [running |-> TRUE, kind |-> "live", total_pnl |-> 100,
     balance |-> starting_balance, position |-> FLAT, trades |-> <<>>,
     last_signal_ts |-> NoTs]

\* One iteration of LiveTradingEngine.run on the frame whose latest row is
\* `row`, at index t: the length check, the edge check, the entry block and
\* _handle_exit.
LiveIteration(tw, row, w, p, fill, t) ==
    IF t + 1 < p.highest_high_lookback + min_history_padding \/ tw.total_pnl <= 0
    THEN tw
    ELSE LET e == LiveEntry(tw.balance, tw.position, row, w, p, fill, t, tw.last_signal_ts)
             x == LiveExit(e.balance, e.position, row, t)
         IN  [tw EXCEPT !.balance = x.balance,
                        !.position = x.position,
                        !.trades = IF x.reason # "none" THEN Append(@, x.trade) ELSE @,
                        !.last_signal_ts = e.last_signal_ts]

InitRefine == BacktestStart /\ twin = LiveTwin /\ engine = NewEngine

\* A bar given to both engines; an order placed by either gets the one fill
\* drawn for the bar.
RefineBar ==
    /\ AtBar
    /\ \E row \in Bars :
       \E fill \in IF \/ entry_attempted(balance, position, row, window)
                     \/ live_entry_attempted(twin.position, row, window, i,
                                             twin.last_signal_ts)
                  THEN simulate_order_fill(row.Close) ELSE {NoFill} :
          /\ BacktestStep(row, fill)
          /\ twin' = LiveIteration(twin, row, window, params, fill, i)

RefineNext == WarmupBar \/ RefineBar \/ BacktestReturn

SpecRefine == InitRefine /\ [][RefineNext]_vars

\* A second call of _run_backtest on the same series, at its first bar.
RerunTwin ==
    [running |-> TRUE, kind |-> "rerun", balance |-> starting_balance,
     position |-> FLAT, equity_curve |-> <<>>, wins |-> 0, losses |-> 0,
     trades |-> <<>>]

\* The locals of the second run.
twin_locals == [balance |-> twin.balance, position |-> twin.position,
                equity_curve |-> twin.equity_curve, wins |-> twin.wins,
                losses |-> twin.losses, trades |-> twin.trades]

InitRerun == BacktestStart /\ twin = RerunTwin /\ engine = NewEngine

\* A bar of the series in both runs: each call of simulate_order_fill draws
\* its own rejection and slippage.
RerunBar ==
    /\ AtBar
    /\ \E row \in Bars :
       \E fill \in IF entry_attempted(balance, position, row, window)
                  THEN simulate_order_fill(row.Close) ELSE {NoFill} :
       \E fill2 \in IF entry_attempted(twin.balance, twin.position, row, window)
                   THEN simulate_order_fill(row.Close) ELSE {NoFill} :
       \E e \in {BacktestEntry(twin.balance, twin.position, row, window, params, fill2, i)} :
       \E x \in {BacktestExit(e.balance, e.position, row, params, i)} :
       \E r \in {after_bar(twin_locals, e, x, row.Close)} :
          /\ BacktestStep(row, fill)
          /\ twin' = [twin EXCEPT !.balance = r.balance, !.position = r.position,
                                  !.equity_curve = r.equity_curve, !.wins = r.wins,
                                  !.losses = r.losses, !.trades = r.trades]

RerunNext == WarmupBar \/ RerunBar \/ BacktestReturn

SpecRerun == InitRerun /\ [][RerunNext]_vars

(***************************************************************************)
(* MainEngine: fetch, grid search, selection of the best row, the           *)
(* best-parameters artifact, the optimization queue, and the hand-over to   *)
(* the live engine.  A grid row is the parameter tuple with the metrics its *)
(* simulation returned; the simulation itself is the backtest above, here   *)
(* reduced to the metrics it can return.                                    *)
(***************************************************************************)
risk_fraction_candidates == <<50, 95>>
take_profit_pct_candidates == <<take_profit_pct_default>>

\* Largest number of rows in a result set whose orderings are compared.
MaxRows == 3

\* StrategyParams(*args): a dataclass of four required fields.
StrategyParams(args) ==
    IF Len(args) = 4
    THEN [ok |-> TRUE, highest_high_lookback |-> args[1], exit_type |-> args[2],
          risk_fraction |-> args[3], take_profit_pct |-> args[4]]
    ELSE [ok |-> FALSE, raised |-> "TypeError"]

GridSize == Len(highest_high_lookback_range) * Len(exit_type_candidates)
            * Len(risk_fraction_candidates) * Len(take_profit_pct_candidates)

\* (mutant) the leftmost candidate list varying fastest
product_leftmost_fastest(k) ==
    LET nL == Len(highest_high_lookback_range)
        nE == Len(exit_type_candidates)
        nR == Len(risk_fraction_candidates)
        k0 == k - 1
    IN  << highest_high_lookback_range[(k0 % nL) + 1],
           exit_type_candidates[((k0 \div nL) % nE) + 1],
           risk_fraction_candidates[((k0 \div (nL * nE)) % nR) + 1],
           take_profit_pct_candidates[(k0 \div (nL * nE * nR)) + 1] >>

\* itertools.product(lookbacks, exit types, risk fractions, take profits):
\* the k-th tuple, the rightmost candidate list varying fastest.
product(k) ==
    LET nT == Len(take_profit_pct_candidates)
        nR == Len(risk_fraction_candidates)
        nE == Len(exit_type_candidates)
        k0 == k - 1
    IN  << highest_high_lookback_range[(k0 \div (nT * nR * nE)) + 1],
           exit_type_candidates[((k0 \div (nT * nR)) % nE) + 1],
           risk_fraction_candidates[((k0 \div nT) % nR) + 1],
           take_profit_pct_candidates[(k0 % nT) + 1] >>

pnl_pct_of(pnl_value) == (pnl_value * 100) \div (starting_balance \div 100)

\* The metrics a simulation can return: a loss, no trade, a gain.
PnlValues == {-152, 0, 566}

\* {**params.__dict__, **metrics.__dict__}; idx is the row's index label.
grid_row(k, pnl_value) ==
    LET p == StrategyParams(product(k))
    IN  [idx |-> k, highest_high_lookback |-> p.highest_high_lookback,
         exit_type |-> p.exit_type, risk_fraction |-> p.risk_fraction,
         take_profit_pct |-> p.take_profit_pct,
         pnl_pct |-> pnl_pct_of(pnl_value), pnl_value |-> pnl_value]

Range(s) == {s[k] : k \in DOMAIN s}

max_pnl_pct(rows) == SeqMax([k \in DOMAIN rows |-> rows[k].pnl_pct])

\* Without the sort: head(1) of the frame as it stands.
sort_values_head1_unsorted(rows) == {rows[1]}

\* dfres.sort_values("pnl_pct", ascending=False).head(1): the default sort
\* kind is quicksort, which is not stable, so among rows with equal pnl_pct
\* any one may come out on top.
sort_values_head1(rows) ==
    {r \in Range(rows) : \A q \in Range(rows) : r.pnl_pct >= q.pnl_pct}

summarize_results(best_row) == [total_pnl |-> best_row.pnl_value]

required_bars_min == SeqMin(highest_high_lookback_range) + min_history_padding

required_bars == SeqMax(highest_high_lookback_range) + min_history_padding

NoParams == [highest_high_lookback |-> 0]

\* The trading state machines before they are started.
TradingIdle ==
    /\ params = NoParams
    /\ window = <<>>
    /\ i = 0
    /\ balance = starting_balance
    /\ position = FLAT
    /\ equity_curve = <<>>
    /\ wins = 0
    /\ losses = 0
    /\ trades = <<>>
    /\ metrics = NoMetrics
    /\ row_seen = <<>>
    /\ last_signal_ts = NoTs
    /\ total_pnl = 0
    /\ opens = 0
    /\ closes = 0
    /\ last = NoEvent

InitMain ==
    /\ TradingIdle
    /\ MainIdle
    /\ mode = "main"
    /\ pc = "fetch"

\* df_1m = self.data_client.fetch_bybit_bars(...)
MainFetch ==
    /\ mode = "main" /\ pc = "fetch"
    /\ nfetched' \in 0..MaxBars
    /\ pc' = "check_bars"
    /\ UNCHANGED <<mode, tradingVars, dfres, shuffled, best, best_shuffled,
                   artifact, queue, sims, live>>
    /\ UNCHANGED auxVars

\* if len(df_1m) < required_bars: raise ValueError(...)
MainCheckBars ==
    /\ mode = "main" /\ pc = "check_bars"
    /\ pc' = IF nfetched < required_bars THEN "ValueError" ELSE "grid"
    /\ UNCHANGED <<mode, tradingVars, mainVars, auxVars>>

\* One iteration of the grid-search loop: the next tuple of the product is
\* simulated and its row appended.
GridStep ==
    /\ mode = "main" /\ pc = "grid"
    /\ Len(dfres) < GridSize
    /\ \E v \in PnlValues : dfres' = Append(dfres, grid_row(Len(dfres) + 1, v))
    /\ sims' = sims + 1
    /\ ret' = [called |-> TRUE, params |-> StrategyParams(product(Len(dfres) + 1)),
               capture_trades |-> FALSE]
    /\ UNCHANGED <<mode, pc, tradingVars, nfetched, shuffled, best, best_shuffled,
                   artifact, queue, live>>
    /\ engine' = [engine EXCEPT !.last_trades = <<>>]
    /\ UNCHANGED twin

\* The grid is exhausted: the best row is selected.
SelectBest ==
    /\ mode = "main" /\ pc = "grid"
    /\ Len(dfres) = GridSize
    /\ best' \in sort_values_head1(dfres)
    /\ pc' = "save"
    /\ UNCHANGED <<mode, tradingVars, nfetched, dfres, shuffled, best_shuffled,
                   artifact, queue, sims, live>>
    /\ UNCHANGED auxVars

SaveBestParams ==
    /\ mode = "main" /\ pc = "save"
    /\ artifact' = [written |-> TRUE, params |-> best,
                    results |-> summarize_results(best)]
    /\ pc' = "queue"
    /\ UNCHANGED <<mode, tradingVars, nfetched, dfres, shuffled, best, best_shuffled,
                   queue, sims, live>>
    /\ UNCHANGED auxVars

\* datetime.utcnow() at the queue step, in days, and time.monotonic() since the
\* start of the pass, in seconds.
Times == {0, 1}
Elapsed == {1, 90}

cadence_days == 2

\* OptimizationQueue.enqueue: appends one item and returns it.
enqueue(q, queued_at, ready_at, elapsed_seconds, payload) ==
    LET item == [queued_at |-> queued_at, ready_at |-> ready_at,
                 elapsed_seconds |-> elapsed_seconds, payload |-> payload]
    IN  [queue |-> Append(q, item), item |-> item]

\* A ready time that forgets the cadence.
ready_at_of_now(queued_at) == queued_at

\* ready_at = queued_at + timedelta(days=2)
ready_at_of(queued_at) == queued_at + cadence_days

QueueBestParams ==
    /\ mode = "main" /\ pc = "queue"
    /\ \E queued_at \in Times, elapsed_seconds \in Elapsed :
       \E r \in {enqueue(queue, queued_at, ready_at_of(queued_at), elapsed_seconds,
                         [params |-> best, results |-> summarize_results(best)])} :
            /\ queue' = r.queue
            /\ ret' = [called |-> TRUE, item |-> r.item]
    /\ pc' = "trades"
    /\ UNCHANGED <<mode, tradingVars, nfetched, dfres, shuffled, best, best_shuffled,
                   artifact, sims, live, twin, engine>>

\* The rest of run_backtests and of MainEngine.run: the best parameters are
\* simulated once more with trade capture, run_backtests returns, and the live
\* engine is constructed from the best row and started.  Both StrategyParams
\* calls pass two positional arguments.
RunBestAndStartLive ==
    /\ mode = "main" /\ pc = "trades"
    /\ LET p == StrategyParams(<<best.highest_high_lookback, best.exit_type>>)
       IN  IF ~p.ok
           THEN /\ pc' = p.raised
                /\ UNCHANGED <<sims, live>>
           ELSE /\ pc' = "live"
                /\ sims' = sims + 1
                /\ live' = [started |-> TRUE, params |-> p,
                            results |-> summarize_results(best)]
    /\ UNCHANGED <<mode, tradingVars, nfetched, dfres, shuffled, best, best_shuffled,
                   artifact, queue>>
    /\ UNCHANGED auxVars

MainNext ==
    \/ MainFetch
    \/ MainCheckBars
    \/ GridStep
    \/ SelectBest
    \/ SaveBestParams
    \/ QueueBestParams
    \/ RunBestAndStartLive

SpecMain == InitMain /\ [][MainNext]_vars

(***************************************************************************)
(* The selection applied to one result set in two row orders.               *)
(***************************************************************************)
ResultSets ==
    UNION {[1..n -> {grid_row(k, v) : k \in 1..MaxRows, v \in PnlValues}] : n \in 1..MaxRows}

Reorderings(rows) ==
    {[k \in DOMAIN rows |-> rows[f[k]]] : f \in Permutations(DOMAIN rows)}

InitSelect ==
    /\ TradingIdle
    /\ mode = "select"
    /\ pc = "select"
    /\ nfetched = 0
    /\ dfres \in {rows \in ResultSets :
                    \A a, b \in DOMAIN rows : a < b => rows[a].idx < rows[b].idx}
    /\ shuffled \in Reorderings(dfres)
    /\ best = NoRow
    /\ best_shuffled = NoRow
    /\ artifact = NoArtifact
    /\ queue = <<>>
    /\ sims = 0
    /\ live = NoLive
    /\ ret = NoRet
    /\ twin = NoTwin
    /\ engine = NewEngine

SelectFromGrid ==
    /\ mode = "select" /\ best = NoRow
    /\ best' \in sort_values_head1(dfres)
    /\ UNCHANGED <<mode, pc, tradingVars, nfetched, dfres, shuffled, best_shuffled,
                   artifact, queue, sims, live>>
    /\ UNCHANGED auxVars

SelectFromShuffled ==
    /\ mode = "select" /\ best_shuffled = NoRow
    /\ best_shuffled' \in sort_values_head1(shuffled)
    /\ UNCHANGED <<mode, pc, tradingVars, nfetched, dfres, shuffled, best,
                   artifact, queue, sims, live>>
    /\ UNCHANGED auxVars

SelectNext == SelectFromGrid \/ SelectFromShuffled

SpecSelect == InitSelect /\ [][SelectNext]_vars

(***************************************************************************)
(* The optimization queue over several optimizer passes.  The queue file    *)
(* outlives a pass; of a later pass only its best row and its queue step    *)
(* are followed here.                                                       *)
(***************************************************************************)
\* Largest number of passes whose items are queued.
MaxQueue == 2

QueueRows == {grid_row(k, v) : k \in 1..2, v \in PnlValues}

InitQueue ==
    /\ TradingIdle
    /\ mode = "main"
    /\ pc = "queue"
    /\ nfetched = required_bars
    /\ dfres = <<>>
    /\ shuffled = <<>>
    /\ best \in QueueRows
    /\ best_shuffled = NoRow
    /\ artifact = [written |-> TRUE, params |-> best, results |-> summarize_results(best)]
    /\ queue = <<>>
    /\ sims = 0
    /\ live = NoLive
    /\ ret = NoRet
    /\ twin = NoTwin
    /\ engine = NewEngine

\* A later pass has selected and saved its best row and stands at its queue step.
NextPassAtQueue ==
    /\ mode = "main" /\ pc = "trades"
    /\ Len(queue) < MaxQueue
    /\ best' \in QueueRows
    /\ artifact' = [written |-> TRUE, params |-> best', results |-> summarize_results(best')]
    /\ pc' = "queue"
    /\ UNCHANGED <<mode, tradingVars, nfetched, dfres, shuffled, best_shuffled,
                   queue, sims, live>>
    /\ UNCHANGED auxVars

QueueNext == QueueBestParams \/ NextPassAtQueue

SpecQueue == InitQueue /\ [][QueueNext]_vars

(***************************************************************************)
(* The leverage resolver on its own: one call on a margin and one on a      *)
(* margin at least as large, with the same desired leverage, schedule and   *)
(* hard cap.                                                                *)
(***************************************************************************)
\* Margins from the minimum notional to one beyond every tier at any leverage.
Margins == {min_notional, starting_balance, 10000 * 100, 20000 * 100, 50000 * 100,
            300000 * 100}

DesiredLeverages == {1, desired_leverage, 20, 60}

\* The configured schedule, a single tier, and a schedule of two low tiers.
TierSchedules == {bybit_leverage_tiers,
                  << <<50000 * 100, 50>> >>,
                  << <<10000 * 100, 25>>, <<50000 * 100, 5>> >>}

HardCaps == {10, bybit_max_leverage}

InitResolver ==
    /\ TradingIdle
    /\ MainIdle
    /\ mode = "resolver"
    /\ pc = "call"

ResolveLeverage ==
    /\ mode = "resolver"
    /\ \E margin \in Margins, more \in Margins, desired \in DesiredLeverages,
          tiers \in TierSchedules, cap \in HardCaps :
            /\ margin <= more
            /\ ret' = [called |-> TRUE, margin |-> margin, margin_more |-> more,
                       desired |-> desired, tiers |-> tiers, cap |-> cap,
                       leverage |-> resolve_leverage_with(margin, desired, tiers, cap),
                       leverage_more |-> resolve_leverage_with(more, desired, tiers, cap)]
    /\ UNCHANGED <<mode, pc, tradingVars, mainVars, twin, engine>>

SpecResolver == InitResolver /\ [][ResolveLeverage]_vars

(***************************************************************************)
(* Claims about the two trading state machines.                             *)
(***************************************************************************)
LossCount == IF mode = "live" THEN LiveLosses(trades) ELSE losses

\* C1: in the backtest and in the live engine at most one position is open at
\* any time: a position is opened only from FLAT, so the opens never run more
\* than one ahead of the closes.
C1_OnePositionAtATime ==
    /\ [](opens - closes \in {0, 1} /\ (position.open <=> opens = closes + 1))
    /\ [][opens' # opens => (~position.open /\ opens' = opens + 1)]_vars

C1_Witness == opens = 2 /\ closes = 1 /\ position.open

\* C2: a bar processed with a position open whose high reaches the liquidation
\* price and whose low reaches the exit target closes the position as a margin
\* call, never as a take-profit.
BothHit ==
    /\ last.kind = "bar" /\ last.pos.open
    /\ last.row.High >= last.pos.liq_price
    /\ last.row.Low <= last.pos.exit_target

C2_MarginCallPrecedence ==
    BothHit => /\ last.exit = "margin_call"
               /\ ~position.open
               /\ trades[Len(trades)].exit_type = "margin_call"
               /\ trades[Len(trades)].pnl_value = - last.pos.margin_used

C2_Witness == BothHit /\ last.entry = "none" /\ last.exit = "margin_call"

\* C3: a margin call realizes exactly minus the margin used, counts one loss,
\* credits nothing back to the balance and returns to FLAT.
C3_MarginCallEffect ==
    (last.kind = "bar" /\ last.exit = "margin_call") =>
        /\ last.net_pnl = - last.pos.margin_used
        /\ trades[Len(trades)].pnl_value = - last.pos.margin_used
        /\ LossCount = last.losses + 1
        /\ balance = last.bal
        /\ position = FLAT

\* C4: every trade record of a backtest run has an exit time strictly after
\* its entry time.
C4_ExitAfterEntry ==
    mode = "backtest" =>
        \A k \in DOMAIN trades : trades[k].exit_time > trades[k].entry_time

TradePnls == [k \in DOMAIN trades |-> trades[k].pnl_value]

\* C5: at the end of a backtest run, the trade PnLs plus the unrealized value of
\* a position still open at the last bar add up to final equity minus the
\* starting balance.
C5_Reconciles ==
    (mode = "backtest" /\ pc = "done" /\ equity_curve # <<>>) =>
        SeqSum(TradePnls)
          + (IF position.open THEN unrealized_pnl(position, last.row.Close) ELSE 0)
        = metrics.final_balance - starting_balance

\* C6: a backtest run whose risk fraction clamps to zero never opens a
\* position: it is FLAT after every bar, counts no win and no loss, and every
\* equity point is the starting balance.
C6_ZeroRiskStaysFlat ==
    (mode = "backtest" /\ params.risk_fraction <= 0) =>
        /\ ~position.open /\ opens = 0
        /\ wins = 0 /\ losses = 0 /\ trades = <<>>
        /\ \A k \in DOMAIN equity_curve : equity_curve[k] = starting_balance
        /\ (pc = "done" => metrics.wins = 0 /\ metrics.losses = 0)

C6_Witness ==
    /\ mode = "backtest" /\ params.risk_fraction <= 0
    /\ last.entry = "zero_risk" /\ Len(equity_curve) = 2 /\ pc = "done"

(***************************************************************************)
(* Claims about the optimizer and MainEngine.                               *)
(***************************************************************************)
BothSelected == mode = "select" /\ best # NoRow /\ best_shuffled # NoRow

IsMaxRow(r, rows) == r \in Range(rows) /\ r.pnl_pct = max_pnl_pct(rows)

\* C7: selecting the best row is order-independent: for every reordering of
\* the same result rows, ties on the maximum PnL percent included, the selected
\* row is the same.
C7_OrderIndependent == BothSelected => best = best_shuffled

\* C7, as it holds: for every reordering of the same result rows the selected
\* row has the same, maximal, PnL percent, and it is the same row whenever only
\* one row attains the maximum.
C7_SameMaximum ==
    BothSelected =>
        /\ IsMaxRow(best, dfres) /\ IsMaxRow(best_shuffled, dfres)
        /\ best.pnl_pct = best_shuffled.pnl_pct
        /\ (Cardinality({r \in Range(dfres) : r.pnl_pct = max_pnl_pct(dfres)}) = 1
                => best = best_shuffled)

C7_Witness == BothSelected /\ shuffled # dfres /\ best # best_shuffled

\* C8: the optimizer selects a row of maximum PnL percent, and among the rows
\* that tie on the maximum the first one of the Cartesian-product enumeration.
C8_FirstSeenWinsTies ==
    (mode = "main" /\ best # NoRow) =>
        /\ IsMaxRow(best, dfres)
        /\ \A k \in DOMAIN dfres : dfres[k].pnl_pct = best.pnl_pct => best.idx <= k

\* C9: once an optimizer pass on sufficient data has selected the best row,
\* written the artifact and appended the queue item, MainEngine.run goes on to
\* start the live loop with the selected parameters: past the step that follows
\* the queue append, the live engine runs with the best row's parameters.
C9_LiveStartsAfterPass ==
    (mode = "main" /\ best # NoRow /\ artifact.written /\ queue # <<>> /\ pc # "trades") =>
        /\ live.started
        /\ live.params.highest_high_lookback = best.highest_high_lookback
        /\ live.params.exit_type = best.exit_type

\* C10: with fewer fetched bars than max(lookback range) + min_history_padding
\* the pass raises before any simulation runs; no artifact is written, no queue
\* item appended and the live loop not started.
C10_TooFewBarsFailsHard ==
    (mode = "main" /\ pc \notin {"fetch", "check_bars"}
       /\ nfetched < SeqMax(highest_high_lookback_range) + min_history_padding) =>
        /\ pc = "ValueError"
        /\ sims = 0 /\ dfres = <<>> /\ best = NoRow
        /\ ~artifact.written /\ queue = <<>> /\ ~live.started

C10_Witness ==
    /\ mode = "main" /\ pc = "ValueError"
    /\ nfetched = SeqMax(highest_high_lookback_range) + min_history_padding - 1

(***************************************************************************)
(* Claims about the live loop.                                              *)
(***************************************************************************)
\* C11: in the live loop a failure inside an iteration other than a user
\* cancellation (an exception of the fetch or of the payload, a rejected or
\* skipped entry) leaves the loop running for a further iteration; the loop
\* ends only by the user's cancellation.
C11_OnlyCancellationEnds ==
    [][mode = "live" =>
         /\ (pc' # pc => (pc = "running" /\ pc' = "stopped" /\ last' = last))
         /\ (last' # last => pc' = "running")]_vars

C11_Witness ==
    /\ mode = "live" /\ pc = "running"
    /\ last.kind = "exception" /\ position.open

C13_NoReentryOnSignalBar ==
    [][(mode = "live" /\ opens' = opens + 1) =>
          (last'.t # last_signal_ts /\ last_signal_ts' = last'.t)]_vars

C13_Witness ==
    /\ mode = "live" /\ last.kind = "bar" /\ last.t = last_signal_ts
    /\ should_enter(last.row, window) /\ ~last.pos.open /\ closes = 1
    /\ last.entry = "none"

\* C14: the user's cancellation ends the live loop and leaves an open position
\* open: the shutdown closes nothing, appends no trade record and does not
\* change the equity.
C14_CancellationLeavesPosition ==
    [][(mode = "live" /\ pc = "running" /\ pc' = "stopped") =>
          /\ position' = position /\ trades' = trades
          /\ balance' = balance /\ closes' = closes]_vars

C14_Witness == mode = "live" /\ pc = "stopped" /\ position.open

(***************************************************************************)
(* Claims about the equity curve, the leverage and the liquidation price.   *)
(***************************************************************************)
\* C15: every value appended to the backtest equity curve is >= 0, on every
\* path: skipped entry, open position marked to the close, margin-call bar,
\* flat bar.
C15_EquityNonNegative ==
    mode = "backtest" => \A k \in DOMAIN equity_curve : equity_curve[k] >= 0

C15_Witness ==
    /\ mode = "backtest" /\ last.kind = "bar" /\ last.exit = "margin_call"
    /\ last.bal < 0 /\ equity_curve[Len(equity_curve)] = 0

\* The cap of the tier a notional falls in: the first tier whose threshold is
\* not under the notional, or the last tier when the notional is beyond all.
MatchedTierCap(tiers, notional) ==
    LET fits == {k \in DOMAIN tiers : tiers[k][1] >= notional}
    IN  IF fits = {} THEN tiers[Len(tiers)][2]
        ELSE tiers[CHOOSE k \in fits : \A q \in fits : k <= q][2]

C17_LiquidationAboveEntry ==
    mode \in {"backtest", "live"} =>
        \A pos \in {position, last.pos} :
            pos.open => (pos.leverage >= 1 /\ pos.liq_price > pos.entry_price)

C17_Witness ==
    /\ mode = "live" /\ position.open
    /\ position.leverage = desired_leverage
    /\ position.liq_price > position.entry_price + position.entry_price \div 4

(***************************************************************************)
(* Claims about the optimization queue, the two engines side by side and    *)
(* repeated backtest runs.                                                  *)
(***************************************************************************)
\* C18: the optimization queue is append-only: the queue step of a pass
\* appends exactly one item, the one it returns, with ready_at two days after
\* queued_at and the pass's best row as payload; the items queued before stay
\* as they were, in their order, and nothing else changes the queue.
C18_QueueAppendOnly ==
    [][/\ (pc = "queue" /\ pc' # "queue") =>
            /\ ret'.called /\ queue' = Append(queue, ret'.item)
            /\ ret'.item.ready_at = ret'.item.queued_at + 2
            /\ ret'.item.payload.params = best
       /\ (queue' # queue) =>
            /\ pc = "queue" /\ Len(queue') = Len(queue) + 1
            /\ SubSeq(queue', 1, Len(queue)) = queue]_vars

C18_Witness ==
    /\ mode = "main" /\ Len(queue) = 2 /\ queue[1] # queue[2]
    /\ ret.called /\ ret.item = queue[2]

(***************************************************************************)
(* C19: fed the same bars (each once), the same params and config and the   *)
(* same fill outcomes, the live engine is FLAT or SHORT_OPEN exactly when   *)
(* the backtest is after every bar, holds the same exit target, and has     *)
(* recorded the same trades: same exit reason, exit price and PnL.          *)
(***************************************************************************)
SameTrade(a, b) ==
    /\ (a.exit_type = "margin_call") = (b.exit_type = "margin_call")
    /\ a.exit_price = b.exit_price
    /\ a.pnl_value = b.pnl_value

C19_LiveRefinesBacktest ==
    (twin.running /\ twin.kind = "live") =>
        /\ twin.position.open = position.open
        /\ position.open => twin.position.exit_target = position.exit_target
        /\ Len(twin.trades) = Len(trades)
        /\ \A k \in DOMAIN trades : SameTrade(twin.trades[k], trades[k])

(***************************************************************************)
(* C20: two runs of the backtest over the same series with the same params  *)
(* and config return identical metrics and identical trade lists.           *)
(***************************************************************************)
C20_RerunIdentical ==
    (twin.running /\ twin.kind = "rerun" /\ metrics.returned) =>
        /\ metrics_of(twin.equity_curve, twin.wins, twin.losses, twin.trades) = metrics
        /\ twin.trades = trades

(***************************************************************************)
(* C21: a position whose bar has low <= exit target and no margin call is   *)
(* closed at exactly the exit target, with net PnL = (entry price - exit    *)
(* target) x quantity - exit fee; the balance is credited margin used + net *)
(* PnL, and the trade counts as a win iff net PnL > 0, else as a loss.      *)
(***************************************************************************)
TakeProfitCase ==
    /\ last.kind = "bar" /\ last.pos.open
    /\ last.row.Low <= last.pos.exit_target
    /\ last.row.High < last.pos.liq_price

C21_TakeProfitEffect ==
    TakeProfitCase =>
        LET pos == last.pos
            exit_fee == bybit_fee_fn((pos.qty * pos.exit_target) \div 100)
            net_pnl == ((pos.entry_price - pos.exit_target) * pos.qty) \div 100 - exit_fee
            trade == trades[Len(trades)]
        IN  /\ last.exit = "take_profit"
            /\ trade.exit_price = pos.exit_target
            /\ trade.pnl_value = net_pnl
            /\ last.net_pnl = net_pnl
            /\ balance = last.bal + pos.margin_used + net_pnl
            /\ position = FLAT
            /\ LossCount = last.losses + (IF net_pnl > 0 THEN 0 ELSE 1)
            /\ mode = "backtest" => wins + losses = Len(trades)

C21_Witness ==
    /\ TakeProfitCase /\ mode = "backtest" /\ last.net_pnl > 0
    /\ wins = 1 /\ losses = 1

(***************************************************************************)
(* C22: the backtest opens a position on a bar only if the bar is at index  *)
(* >= lookback + 1, its high is >= the maximum high of the lookback bars    *)
(* before it and its close is below its open; the equity curve holds one    *)
(* point for every bar from index lookback + 1 on and none for the warmup.  *)
(***************************************************************************)
C22_EntryAfterWarmupOnSignal ==
    /\ [](mode = "backtest" =>
            Len(equity_curve) = Max(i - (params.highest_high_lookback + 1), 0))
    /\ [][(mode = "backtest" /\ opens' = opens + 1) =>
            /\ i >= params.highest_high_lookback + 1
            /\ Len(window) = params.highest_high_lookback
            /\ \A k \in DOMAIN window : last'.row.High >= window[k].High
            /\ last'.row.Close < last'.row.Open
            /\ last'.t = i]_vars

C22_Witness ==
    /\ mode = "backtest" /\ last.entry = "opened" /\ position.open
    /\ last.t = params.highest_high_lookback + 1
    /\ Len(equity_curve) = 1 /\ i = MaxBars

(***************************************************************************)
(* C23: on every accepted entry of the backtest, margin used = balance x    *)
(* clamped risk fraction, notional = margin used x resolved leverage,       *)
(* quantity = notional / fill price, and the balance is debited by entry    *)
(* fee + margin used; the exit target is the trailing structure value of    *)
(* the exit type, or entry price x (1 - take_profit_pct) when that value is *)
(* undefined, so the position opened has a defined exit target.             *)
(***************************************************************************)
TrailingValue(w, exit_type) ==
    IF exit_type = "highest_low" THEN highest_low(w)
    ELSE IF exit_type = "lowest_high" THEN lowest_high(w)
    ELSE IF exit_type = "midpoint" THEN (highest_low(w) + lowest_high(w)) \div 2
    ELSE NaN

C23_EntryAccounting ==
    [][(mode = "backtest" /\ opens' = opens + 1) =>
        \A pos \in {last'.pos} :
        \A margin \in {(balance * Min(Max(params.risk_fraction, 0), 100)) \div 100} :
        \A leverage \in {resolve_leverage(margin, desired_leverage)} :
        \A trailing \in {TrailingValue(window, params.exit_type)} :
            /\ pos.open
            /\ pos.entry_price \in {f.price : f \in simulate_order_fill(last'.row.Close)}
            /\ pos.entry_price # NaN
            /\ pos.margin_used = margin
            /\ pos.leverage = leverage
            /\ pos.qty = (margin * leverage * 100) \div pos.entry_price
            /\ last'.bal = balance - (bybit_fee_fn(margin * leverage) + margin)
            /\ pos.exit_target =
                  IF trailing = NaN
                  THEN pos.entry_price
                       - (pos.entry_price * params.take_profit_pct) \div 10000
                  ELSE trailing
            /\ pos.exit_target # NaN]_vars

C23_Witness ==
    /\ mode = "backtest" /\ last.entry = "opened" /\ position.open
    /\ params.exit_type = "other"
    /\ position.exit_target
         = position.entry_price - (position.entry_price * params.take_profit_pct) \div 10000

(***************************************************************************)
(* C24: when an entry signal fires but the order is rejected, the clamped   *)
(* risk fraction is zero, the implied margin is below min_notional or the   *)
(* leveraged notional is below min_notional, the backtest stays FLAT,       *)
(* leaves balance, win/loss counts and trade list unchanged, and appends    *)
(* exactly one equity point equal to the unchanged balance.                 *)
(***************************************************************************)
\* The bar of the step is a signal bar met FLAT and funded whose entry cannot
\* be sized, or whose order was rejected.
AbandonedEntry ==
    /\ mode = "backtest" /\ i' = i + 1 /\ last'.kind = "bar" /\ last'.t = i
    /\ ~position.open /\ balance > 0
    /\ \A k \in DOMAIN window : last'.row.High >= window[k].High
    /\ last'.row.Close < last'.row.Open
    /\ \/ last'.entry = "rejected"
       \/ \E margin \in {(balance * Min(Max(params.risk_fraction, 0), 100)) \div 100} :
             \/ margin < min_notional
             \/ margin * resolve_leverage(margin, desired_leverage) < min_notional

C24_AbandonedEntryFrame ==
    [][AbandonedEntry =>
        /\ position' = FLAT
        /\ balance' = balance
        /\ wins' = wins /\ losses' = losses /\ trades' = trades
        /\ opens' = opens /\ closes' = closes
        /\ equity_curve' = Append(equity_curve, balance)
        /\ last'.entry \in
             {"rejected", "zero_risk", "margin_below_min", "notional_below_min"}]_vars

C24_Witness ==
    /\ mode = "backtest" /\ last.entry = "margin_below_min"
    /\ balance = starting_balance /\ equity_curve = <<starting_balance, starting_balance>>
    /\ ~position.open

(***************************************************************************)
(* C25: a position still open after the last bar of a backtest series is    *)
(* not force-closed: the return adds no trade record and no win or loss for *)
(* it and charges no exit fee.                                              *)
(***************************************************************************)
C25_NoForcedCloseAtEnd ==
    [][(mode = "backtest" /\ pc = "running" /\ pc' = "done" /\ position.open) =>
        /\ position' = position
        /\ trades' = trades
        /\ wins' = wins /\ losses' = losses /\ balance' = balance
        /\ metrics'.returned
        /\ metrics'.wins = wins /\ metrics'.losses = losses
        /\ metrics'.final_balance =
              Max(balance + position.margin_used
                  + ((position.entry_price - last.row.Close) * position.qty) \div 100, 0)]_vars

C25_Witness ==
    /\ mode = "backtest" /\ pc = "done" /\ position.open
    /\ opens = 2 /\ Len(trades) = 1 /\ metrics.wins + metrics.losses = 1

(***************************************************************************)
(* C26: degenerate metrics are neutral values, never an undefined number:   *)
(* the Sharpe ratio is exactly zero whenever the return series has zero     *)
(* variance or fewer than two points, and the reward:risk ratio is null     *)
(* whenever the run has no losses.                                          *)
(***************************************************************************)
DegenerateReturns(rs) == Len(rs) < 2 \/ \A k \in DOMAIN rs : rs[k] = rs[1]

C26_DegenerateMetricsNeutral ==
    (mode = "backtest" /\ metrics.returned) =>
        /\ DegenerateReturns(dropna(pct_change(equity_curve))) => metrics.sharpe = "zero"
        /\ metrics.sharpe # "nan"
        /\ losses = 0 => metrics.rr_ratio.null

(***************************************************************************)
(* C27: cancellation of the live loop takes effect only between             *)
(* iterations: the engine never stops with the equity debited by an entry   *)
(* and no position recorded, nor with a position closed whose trade record  *)
(* or equity credit is missing.                                             *)
(***************************************************************************)
C27_CancellationBetweenIterations ==
    (mode = "live" /\ pc = "stopped") =>
        /\ ~(opens = closes + 1 /\ ~position.open)
        /\ ~position.open => (Len(trades) = opens /\ closes = opens)

(***************************************************************************)
(* C28: the grid search runs the backtest exactly once for every tuple of   *)
(* lookback range x exit types x risk fractions x take-profit percents,     *)
(* without trade capture, and returns exactly one row per tuple, in the     *)
(* order of the enumeration.                                                *)
(***************************************************************************)
IndexIn(seq, v) == CHOOSE k \in DOMAIN seq : seq[k] = v

\* The place of a row's tuple in the enumeration, the lookback outermost and
\* the take-profit percent innermost.
EnumerationPlace(row) ==
    ((((IndexIn(highest_high_lookback_range, row.highest_high_lookback) - 1)
            * Len(exit_type_candidates)
        + (IndexIn(exit_type_candidates, row.exit_type) - 1))
            * Len(risk_fraction_candidates)
        + (IndexIn(risk_fraction_candidates, row.risk_fraction) - 1))
            * Len(take_profit_pct_candidates)
        + (IndexIn(take_profit_pct_candidates, row.take_profit_pct) - 1)) + 1

C28_GridOncePerTuple ==
    /\ [](mode = "main" =>
            /\ sims = Len(dfres)
            /\ \A k \in DOMAIN dfres : EnumerationPlace(dfres[k]) = k
            /\ pc \in {"save", "queue", "trades", "TypeError"} =>
                  Len(dfres) = Len(highest_high_lookback_range) * Len(exit_type_candidates)
                               * Len(risk_fraction_candidates)
                               * Len(take_profit_pct_candidates))
    /\ [][(mode = "main" /\ sims' # sims) =>
            /\ sims' = sims + 1
            /\ SubSeq(dfres', 1, Len(dfres)) = dfres
            /\ ret'.called /\ ~ret'.capture_trades
            /\ ret'.params.ok
            /\ EnumerationPlace(ret'.params) = sims']_vars

C28_Witness ==
    /\ mode = "main" /\ pc = "save"
    /\ Len(dfres) = 8 /\ sims = 8
    /\ dfres[2].risk_fraction = 95 /\ dfres[3].exit_type = "lowest_high"
    /\ dfres[5].highest_high_lookback = 2

(***************************************************************************)
(* C29: for any sequence of runs on one BacktestEngine instance,            *)
(* run_backtest_with_trades returns exactly the trades closed during the    *)
(* run it just executed, never trades captured by an earlier run.           *)
(***************************************************************************)
C29_TradesOfThisRun ==
    (mode = "backtest" /\ pc = "done" /\ engine.capture_trades) =>
        engine.last_trades = trades

\* C30: the live entry rules are applied at most once per bar timestamp: when
\* an iteration sees the bar of the previous iteration again, it makes no
\* second order-fill attempt after a rejection on that bar, and opens no
\* position if a position was closed on that bar.
C30_EntryOncePerBar ==
    [][(LiveSameBar /\ last.kind = "bar" /\ last'.kind = "bar") =>
          /\ (last.entry = "rejected" => last'.entry \notin {"rejected", "opened"})
          /\ (last.exit \in {"margin_call", "take_profit"} =>
                  last'.entry # "opened")]_vars

\* C31: opening a position in the backtest never debits more than the
\* available balance: the balance is at least zero right after the entry
\* debit of the bar and after every bar of the run.
C31_EntryWithinBalance ==
    mode = "backtest" =>
        /\ balance >= 0
        /\ (last.entry = "opened" => last.bal >= 0)

====
